---- MODULE Spec2Model ----
(***************************************************************************)
(* Coastal Risk Predictor (app2.py): the session state machine of the      *)
(* three pages, the loading of the two models, and the analysis request    *)
(* (make_predictions followed by display_prediction_results).              *)
(*                                                                         *)
(* Numbers are fixed point with four decimals: a latitude, a longitude or  *)
(* a tide score x is held as the integer 10000 * x, so 53.3498 is 533498,  *)
(* the threshold 2.5 is 25000 and 2.4999 is 24999.                         *)
(*                                                                         *)
(* One step of the model is one run of the script for one user event: the  *)
(* host runs the whole script again for every click, edit or button press  *)
(* and a run that calls st.rerun() is followed at once by the next run,    *)
(* which is part of the same step.                                         *)
(***************************************************************************)
EXTENDS Integers, FiniteSets, Sequences, TLC

VARIABLES
    phase,            \* "loading", "running", or "blocked" (st.stop() in every run)
    tideArtifact,     \* tide_prediction.joblib on disk: "missing", "ok", "corrupt"
    coastalArtifact,  \* coastal_risk_model.joblib on disk, likewise
    folium,           \* whether folium / streamlit_folium can be imported
    tide_model,       \* "None" or "loaded"
    coastal_model,    \* "None" or "loaded"
    page,             \* st.session_state.page
    latitude,         \* st.session_state.latitude
    longitude,        \* st.session_state.longitude
    last_clicked,     \* the value the map widget returns as map_data['last_clicked']
    raised,           \* the last run ended with an exception nothing caught
    event,            \* the user event of the last run, with the click payload it saw
    request,          \* the arguments and outcomes of the predict calls of the last run
    report            \* what display_prediction_results rendered in the last run

vars == <<phase, tideArtifact, coastalArtifact, folium, tide_model, coastal_model,
          page, latitude, longitude, last_clicked, raised, event, request, report>>

session == <<page, latitude, longitude>>

-----------------------------------------------------------------------------
(* Bounds of the inputs the environment supplies. *)

\* The largest tide score the tide model returns.
MaxScore == 30000
\* The largest longitude the map reports for a click on a repeated copy of the
\* world (the map widget does not wrap longitudes into [-180, 180]).
MaxWrapLng == 1900000

-----------------------------------------------------------------------------
(* Program constants. *)

DefaultLatitude == 533498
DefaultLongitude == 0 - 62603
MinLatitude == 0 - 900000
MaxLatitude == 900000
MinLongitude == 0 - 1800000
MaxLongitude == 1800000
TideHighThreshold == 25000
TideModerateThreshold == 15000

Pages == {"home", "map", "coordinates"}
Artifacts == {"missing", "ok", "corrupt"}

-----------------------------------------------------------------------------
(* Inputs. *)

TideScores == {1000, 14999, 15000, 24999, 25000, 26000, MaxScore}
CoastalLabels == {"High", "Moderate", "Low", "", "high"}

\* The outcome of one predict call: it raises, or returns a value.
TideOutcomes ==
    {[raises |-> TRUE, value |-> 0]} \cup {[raises |-> FALSE, value |-> s] : s \in TideScores}
CoastalOutcomes ==
    {[raises |-> TRUE, value |-> ""]} \cup {[raises |-> FALSE, value |-> l] : l \in CoastalLabels}

\* A field of a click record: a number, null (None), or not in the record.
Num(v) == [kind |-> "num", v |-> v]
Null == [kind |-> "null", v |-> 0]
Missing == [kind |-> "missing", v |-> 0]

MapLats == {0, 200000, DefaultLatitude}
MapLngs == {0 - MaxWrapLng, DefaultLongitude, 0, 300000, MaxWrapLng}

NoClick == [click |-> FALSE, lat |-> Missing, lng |-> Missing]
ClickRecords ==
    [click : {TRUE},
     lat : {Num(v) : v \in MapLats} \cup {Null, Missing},
     lng : {Num(v) : v \in MapLngs} \cup {Null, Missing}]

\* What the user types into a number field, in range or not.
EnteredLatitudes == {MinLatitude - 1, MinLatitude, MaxLatitude, MaxLatitude + 1}
EnteredLongitudes == {MinLongitude - 1, MinLongitude, MaxLongitude, MaxLongitude + 1}

NoEvent == [name |-> "none", click |-> NoClick]
Event(name, click) == [name |-> name, click |-> click]

-----------------------------------------------------------------------------
(* load_models *)

\* joblib.load of a corrupt artifact raises; the single try block around both
\* loads then leaves every model not yet assigned at None.
load_models(tA, cA) ==
    IF tA = "corrupt"
      THEN [tide |-> "None", coastal |-> "None"]
      ELSE [tide |-> IF tA = "ok" THEN "loaded" ELSE "None",
            coastal |-> IF cA = "ok" THEN "loaded" ELSE "None"]

\* The module-level check that ends every run with st.stop().
BothModelsMissing(tm, cm) == tm = "None" /\ cm = "None"

-----------------------------------------------------------------------------
(* make_predictions *)

\* An entry of the results dictionary; key is FALSE when the dictionary has no
\* such key, and the other fields then hold fillers.
NoEntry == [key |-> FALSE, success |-> FALSE, score |-> 0, level |-> "", class |-> ""]
Failed == [key |-> TRUE, success |-> FALSE, score |-> 0, level |-> "", class |-> ""]

tide_level_StrictHigh(tide_pred) ==
    IF tide_pred > TideHighThreshold THEN "High"
    ELSE IF tide_pred >= TideModerateThreshold THEN "Moderate"
    ELSE "Low"
tide_level(tide_pred) ==
    IF tide_pred >= TideHighThreshold THEN "High"
    ELSE IF tide_pred >= TideModerateThreshold THEN "Moderate"
    ELSE "Low"

RiskClass_IgnoresCase(level) ==
    IF level \in {"High", "high"} THEN "risk-high"
    ELSE IF level \in {"Moderate", "moderate"} THEN "risk-moderate"
    ELSE "risk-low"
RiskClass(level) ==
    IF level = "High" THEN "risk-high"
    ELSE IF level = "Moderate" THEN "risk-moderate"
    ELSE "risk-low"

tide_entry(model, out) ==
    IF model = "None" THEN NoEntry
    ELSE IF out.raises THEN Failed
    ELSE [key |-> TRUE, success |-> TRUE, score |-> out.value,
          level |-> tide_level(out.value), class |-> RiskClass(tide_level(out.value))]

coastal_entry(model, out) ==
    IF model = "None" THEN NoEntry
    ELSE IF out.raises THEN Failed
    ELSE [key |-> TRUE, success |-> TRUE, score |-> 0,
          level |-> out.value, class |-> RiskClass(out.value)]

\* lat and lon reach the models only as the input_data of the predict calls,
\* whose outcomes are tideOut and coastalOut.
make_predictions_SingleTry(tm, cm, lat, lon, tideOut, coastalOut) ==
    LET tide == tide_entry(tm, tideOut)
    IN  [tide |-> tide,
         coastal |-> IF tide.key /\ ~tide.success THEN NoEntry
                     ELSE coastal_entry(cm, coastalOut)]
make_predictions(tm, cm, lat, lon, tideOut, coastalOut) ==
    [tide |-> tide_entry(tm, tideOut), coastal |-> coastal_entry(cm, coastalOut)]

\* The predict calls of one make_predictions call and what they were given.
NoRequest ==
    [made |-> FALSE, lat |-> 0, lon |-> 0, tideCalled |-> FALSE, coastalCalled |-> FALSE,
     tide |-> [raises |-> TRUE, value |-> 0], coastal |-> [raises |-> TRUE, value |-> ""]]
Request(tm, cm, lat, lon, tideOut, coastalOut) ==
    [made |-> TRUE, lat |-> lat, lon |-> lon,
     tideCalled |-> tm # "None", coastalCalled |-> cm # "None",
     tide |-> IF tm # "None" THEN tideOut ELSE [raises |-> TRUE, value |-> 0],
     coastal |-> IF cm # "None" THEN coastalOut ELSE [raises |-> TRUE, value |-> ""]]

-----------------------------------------------------------------------------
(* display_prediction_results *)

Unavailable == [available |-> FALSE, level |-> "", score |-> 0, class |-> ""]
NoOverall == [present |-> FALSE, class |-> "", text |-> "", desc |-> ""]

Card(entry) ==
    IF entry.key /\ entry.success
      THEN [available |-> TRUE, level |-> entry.level, score |-> entry.score,
            class |-> entry.class]
      ELSE Unavailable

overall_shown_Either(results) ==
    (results.tide.key /\ results.tide.success)
        \/ (results.coastal.key /\ results.coastal.success)
overall_shown(results) ==
    results.tide.key /\ results.tide.success
        /\ results.coastal.key /\ results.coastal.success

overall_assessment_BandsMustAgree(tide_risk, coastal_risk) ==
    IF tide_risk >= TideHighThreshold /\ coastal_risk = "High"
      THEN [present |-> TRUE, class |-> "risk-high", text |-> "CRITICAL RISK",
            desc |-> "Avoid all coastal activities immediately"]
    ELSE IF tide_risk >= TideModerateThreshold \/ coastal_risk = "Moderate"
      THEN [present |-> TRUE, class |-> "risk-moderate", text |-> "MODERATE RISK",
            desc |-> "Exercise extreme caution near coastal areas"]
    ELSE [present |-> TRUE, class |-> "risk-low", text |-> "LOW RISK",
          desc |-> "Generally safe conditions for coastal activities"]
overall_assessment_OtherThreshold(tide_risk, coastal_risk) ==
    IF tide_risk >= 20000 \/ coastal_risk = "High"
      THEN [present |-> TRUE, class |-> "risk-high", text |-> "CRITICAL RISK",
            desc |-> "Avoid all coastal activities immediately"]
    ELSE IF tide_risk >= TideModerateThreshold \/ coastal_risk = "Moderate"
      THEN [present |-> TRUE, class |-> "risk-moderate", text |-> "MODERATE RISK",
            desc |-> "Exercise extreme caution near coastal areas"]
    ELSE [present |-> TRUE, class |-> "risk-low", text |-> "LOW RISK",
          desc |-> "Generally safe conditions for coastal activities"]
overall_assessment(tide_risk, coastal_risk) ==
    IF tide_risk >= TideHighThreshold \/ coastal_risk = "High"
      THEN [present |-> TRUE, class |-> "risk-high", text |-> "CRITICAL RISK",
            desc |-> "Avoid all coastal activities immediately"]
    ELSE IF tide_risk >= TideModerateThreshold \/ coastal_risk = "Moderate"
      THEN [present |-> TRUE, class |-> "risk-moderate", text |-> "MODERATE RISK",
            desc |-> "Exercise extreme caution near coastal areas"]
    ELSE [present |-> TRUE, class |-> "risk-low", text |-> "LOW RISK",
          desc |-> "Generally safe conditions for coastal activities"]

NoReport ==
    [shown |-> FALSE, latitude |-> 0, longitude |-> 0,
     tide |-> Unavailable, coastal |-> Unavailable, overall |-> NoOverall]

display_prediction_results(results, lat, lon) ==
    [shown |-> TRUE, latitude |-> lat, longitude |-> lon,
     tide |-> Card(results.tide),
     coastal |-> Card(results.coastal),
     overall |-> IF overall_shown(results)
                   THEN overall_assessment(results.tide.score, results.coastal.level)
                   ELSE NoOverall]

-----------------------------------------------------------------------------
(* The widgets. *)

InRange(lat, lon) ==
    MinLatitude <= lat /\ lat <= MaxLatitude /\ MinLongitude <= lon /\ lon <= MaxLongitude

\* st.number_input raises when the value it is given lies outside
\* [min_value, max_value].
number_input_raises(min_value, max_value, value) == value < min_value \/ value > max_value

\* The field commits an entry only when it lies in [min_value, max_value].
number_input_accepts(min_value, max_value, entered) ==
    min_value <= entered /\ entered <= max_value

\* Python truth of a field of the click record: None and 0 are false.
Truthy(f) == f.kind = "num" /\ f.v # 0
\* Python truth of map_data['last_clicked']: None and the empty record are false.
PayloadTruthy(p) == p.click /\ ~(p.lat.kind = "missing" /\ p.lng.kind = "missing")
\* p['lat'] or p['lng'] raises KeyError, which nothing catches.
ClickRaises(p) == PayloadTruthy(p) /\ (p.lat.kind = "missing" \/ p.lng.kind = "missing")
ClickAccepted(p) == PayloadTruthy(p) /\ ~ClickRaises(p) /\ Truthy(p.lat) /\ Truthy(p.lng)

\* The map widget is built from the session coordinate, so a run that changes
\* the coordinate is followed by a run with a new widget, which reports no click;
\* an unchanged map keeps reporting the click it last saw.
WidgetAfter(p, lat, lon) == IF latitude = lat /\ longitude = lon THEN p ELSE NoClick

-----------------------------------------------------------------------------
(* The state machine. *)

Init ==
    /\ phase = "loading"
    /\ tideArtifact \in Artifacts
    /\ coastalArtifact \in Artifacts
    /\ folium \in BOOLEAN
    /\ tide_model = "None"
    /\ coastal_model = "None"
    /\ page = "home"
    /\ latitude = DefaultLatitude
    /\ longitude = DefaultLongitude
    /\ last_clicked = NoClick
    /\ raised = FALSE
    /\ event = NoEvent
    /\ request = NoRequest
    /\ report = NoReport

environment == <<tideArtifact, coastalArtifact, folium>>
models == <<tide_model, coastal_model>>

\* The first run of the script: the models are loaded once (st.cache_resource)
\* and the run stops at st.stop() when both are None, as every later run does.
LoadModels ==
    /\ phase = "loading"
    /\ LET m == load_models(tideArtifact, coastalArtifact)
       IN  /\ tide_model' = m.tide
           /\ coastal_model' = m.coastal
           /\ phase' = IF BothModelsMissing(m.tide, m.coastal) THEN "blocked" ELSE "running"
    /\ event' = Event("load", NoClick)
    /\ UNCHANGED <<environment, page, latitude, longitude, last_clicked, raised,
                   request, report>>

\* A page's widgets exist only in a run that got past st.stop().
Rendered_WithoutStop(p) == page = p
Rendered(p) == phase = "running" /\ page = p

\* Home: "Interactive Map Selection". The next run renders the map page with a
\* new map widget, which reports no click.
SelectMap ==
    /\ Rendered("home")
    /\ page' = "map"
    /\ last_clicked' = NoClick
    /\ raised' = FALSE
    /\ event' = Event("select_map", NoClick)
    /\ request' = NoRequest
    /\ report' = NoReport
    /\ UNCHANGED <<phase, environment, models, latitude, longitude>>

\* The coordinates page up to the update of the session state: both fields are
\* built from the session coordinate and their values are written back to it.
CoordinatesRaises(lat, lon) ==
    \/ number_input_raises(MinLatitude, MaxLatitude, lat)
    \/ number_input_raises(MinLongitude, MaxLongitude, lon)

\* Home: "Manual Coordinate Entry". The next run renders the coordinates page.
SelectCoordinates_Clamps ==
    /\ Rendered("home")
    /\ page' = "coordinates"
    /\ longitude' = IF longitude > MaxLongitude THEN MaxLongitude
                    ELSE IF longitude < MinLongitude THEN MinLongitude ELSE longitude
    /\ raised' = FALSE
    /\ event' = Event("select_coordinates", NoClick)
    /\ request' = NoRequest
    /\ report' = NoReport
    /\ UNCHANGED <<phase, environment, models, latitude, last_clicked>>
SelectCoordinates ==
    /\ Rendered("home")
    /\ page' = "coordinates"
    /\ raised' = CoordinatesRaises(latitude, longitude)
    /\ event' = Event("select_coordinates", NoClick)
    /\ request' = NoRequest
    /\ report' = NoReport
    /\ UNCHANGED <<phase, environment, models, latitude, longitude, last_clicked>>

\* Map: "Back to Home". The map widget is gone with its page.
BackFromMap_ToCoordinates ==
    /\ Rendered("map")
    /\ page' = "coordinates"
    /\ last_clicked' = NoClick
    /\ raised' = CoordinatesRaises(latitude, longitude)
    /\ event' = Event("back", NoClick)
    /\ request' = NoRequest
    /\ report' = NoReport
    /\ UNCHANGED <<phase, environment, models, latitude, longitude>>
BackFromMap ==
    /\ Rendered("map")
    /\ page' = "home"
    /\ last_clicked' = NoClick
    /\ raised' = FALSE
    /\ event' = Event("back", NoClick)
    /\ request' = NoRequest
    /\ report' = NoReport
    /\ UNCHANGED <<phase, environment, models, latitude, longitude>>

\* Coordinates: "Back to Home".
BackFromCoordinates ==
    /\ Rendered("coordinates")
    /\ page' = "home"
    /\ raised' = FALSE
    /\ event' = Event("back", NoClick)
    /\ request' = NoRequest
    /\ report' = NoReport
    /\ UNCHANGED <<phase, environment, models, latitude, longitude, last_clicked>>

\* No analysis in this run: nothing is predicted and nothing is displayed.
NoAnalysis == request' = NoRequest /\ report' = NoReport

\* make_predictions(tide_model, coastal_model, lat, lon) and then
\* display_prediction_results(results, lat, lon), for some outcome of each
\* predict call.
Analysis(lat, lon) ==
    \E tideOut \in TideOutcomes, coastalOut \in CoastalOutcomes :
        /\ request' = Request(tide_model, coastal_model, lat, lon, tideOut, coastalOut)
        /\ report' = display_prediction_results(
                         make_predictions(tide_model, coastal_model, lat, lon,
                                          tideOut, coastalOut),
                         lat, lon)

\* The click handling of the map page for the payload p the widget returns.
\* An accepted click ends the run with st.rerun().
HandleClick(p) ==
    IF ClickRaises(p)
      THEN /\ raised' = TRUE
           /\ last_clicked' = p
           /\ UNCHANGED <<latitude, longitude>>
    ELSE IF ClickAccepted(p)
      THEN /\ latitude' = p.lat.v
           /\ longitude' = p.lng.v
           /\ raised' = FALSE
           /\ last_clicked' = WidgetAfter(p, p.lat.v, p.lng.v)
    ELSE /\ raised' = FALSE
         /\ last_clicked' = p
         /\ UNCHANGED <<latitude, longitude>>

\* Map: a click on the map; the widget returns p as last_clicked.
MapClick(p) ==
    /\ Rendered("map")
    /\ folium
    /\ event' = Event("map_click", p)
    /\ HandleClick(p)
    /\ NoAnalysis
    /\ UNCHANGED <<phase, environment, models, page>>

\* The coordinate the map page's button hands to make_predictions.
map_analyze_input_Default == <<DefaultLatitude, DefaultLongitude>>
map_analyze_input == <<latitude, longitude>>

\* Map: "Analyze Coastal Risks". The click handling runs first, on the click the
\* widget still reports; the button is reached only when that neither raises nor
\* ends the run with st.rerun().
AnalyzeMap ==
    /\ Rendered("map")
    /\ folium
    /\ event' = Event("analyze", last_clicked)
    /\ HandleClick(last_clicked)
    /\ IF ClickRaises(last_clicked) \/ ClickAccepted(last_clicked)
         THEN NoAnalysis
         ELSE Analysis(map_analyze_input[1], map_analyze_input[2])
    /\ UNCHANGED <<phase, environment, models, page>>

\* Coordinates: the user commits v in the latitude field. The longitude field of
\* the run raises when the session longitude is out of its range, and the
\* session state is then not updated.
EditLatitude(v) ==
    /\ Rendered("coordinates")
    /\ ~number_input_raises(MinLatitude, MaxLatitude, latitude)
    /\ number_input_accepts(MinLatitude, MaxLatitude, v)
    /\ IF number_input_raises(MinLongitude, MaxLongitude, longitude)
         THEN raised' = TRUE /\ latitude' = latitude
         ELSE raised' = FALSE /\ latitude' = v
    /\ event' = Event("edit", NoClick)
    /\ NoAnalysis
    /\ UNCHANGED <<phase, environment, models, page, longitude, last_clicked>>

\* Coordinates: the user commits v in the longitude field.
EditLongitude(v) ==
    /\ Rendered("coordinates")
    /\ ~CoordinatesRaises(latitude, longitude)
    /\ number_input_accepts(MinLongitude, MaxLongitude, v)
    /\ longitude' = v
    /\ raised' = FALSE
    /\ event' = Event("edit", NoClick)
    /\ NoAnalysis
    /\ UNCHANGED <<phase, environment, models, page, latitude, last_clicked>>

\* Coordinates: "Analyze Coastal Risks". The fields return the session
\* coordinate, which is written back and handed to make_predictions.
AnalyzeCoordinates ==
    /\ Rendered("coordinates")
    /\ ~CoordinatesRaises(latitude, longitude)
    /\ raised' = FALSE
    /\ event' = Event("analyze", NoClick)
    /\ IF InRange(latitude, longitude)
         THEN Analysis(latitude, longitude)
         ELSE NoAnalysis
    /\ UNCHANGED <<phase, environment, models, page, latitude, longitude, last_clicked>>

Next ==
    \/ LoadModels
    \/ SelectMap
    \/ SelectCoordinates
    \/ BackFromMap
    \/ BackFromCoordinates
    \/ \E p \in ClickRecords : MapClick(p)
    \/ AnalyzeMap
    \/ \E v \in EnteredLatitudes : EditLatitude(v)
    \/ \E v \in EnteredLongitudes : EditLongitude(v)
    \/ AnalyzeCoordinates

Spec == Init /\ [][Next]_vars

-----------------------------------------------------------------------------
(* The claims. *)

TideSucceeded == request.made /\ request.tideCalled /\ ~request.tide.raises
CoastalSucceeded == request.made /\ request.coastalCalled /\ ~request.coastal.raises

\* The bands as section 4.1 of the specification states them.
SpecTideBand(score) ==
    CASE score >= TideHighThreshold -> "High"
      [] score < TideHighThreshold /\ score >= TideModerateThreshold -> "Moderate"
      [] score < TideModerateThreshold -> "Low"
SpecCoastalBand(label) ==
    CASE label = "High" -> "High"
      [] label = "Moderate" -> "Moderate"
      [] OTHER -> "Low"
SpecClass(band) ==
    CASE band = "High" -> "risk-high"
      [] band = "Moderate" -> "risk-moderate"
      [] band = "Low" -> "risk-low"
SpecMessage(band) ==
    CASE band = "High" -> "Avoid all coastal activities immediately"
      [] band = "Moderate" -> "Exercise extreme caution near coastal areas"
      [] band = "Low" -> "Generally safe conditions for coastal activities"
SpecOverallBand(score, label) ==
    IF score >= TideHighThreshold \/ label = "High" THEN "High"
    ELSE IF score >= TideModerateThreshold \/ label = "Moderate" THEN "Moderate"
    ELSE "Low"

\* C1: every analysis request is displayed; a signal is shown exactly when its
\* model is present and its predict call did not raise; and the overall verdict
\* is shown if and only if both signals are shown.
C1_OverallIffBothSignals ==
    /\ request.made <=> report.shown
    /\ request.made => (request.tideCalled <=> tide_model # "None")
    /\ request.made => (request.coastalCalled <=> coastal_model # "None")
    /\ report.shown =>
         /\ report.tide.available <=> TideSucceeded
         /\ report.coastal.available <=> CoastalSucceeded
         /\ report.overall.present <=> (TideSucceeded /\ CoastalSucceeded)
         /\ report.overall.present <=> (report.tide.available /\ report.coastal.available)

\* A request whose tide signal is shown while the coastal predict call raised.
C1_Witness ==
    /\ report.shown
    /\ report.tide.available
    /\ request.coastalCalled /\ request.coastal.raises
    /\ ~report.overall.present

\* C2: after loading, the session is blocked exactly when both models are None;
\* a blocked session stays blocked, and no step of it changes the page or the
\* coordinate, or makes a prediction or a report.
C2_BlockedForever ==
    /\ [](phase # "loading" =>
            (phase = "blocked" <=> (tide_model = "None" /\ coastal_model = "None")))
    /\ [](phase = "blocked" => ~request.made /\ ~report.shown)
    /\ [][phase = "blocked" =>
            /\ phase' = "blocked"
            /\ UNCHANGED session
            /\ ~request'.made /\ ~report'.shown]_vars

\* Both artifacts are missing, the models were loaded and the session is blocked.
C2_Witness ==
    /\ phase = "blocked"
    /\ event.name = "load"
    /\ tideArtifact = "missing" /\ coastalArtifact = "missing"

\* C3: an analysis never ends in an exception, and each signal whose model is
\* present and whose predict call succeeds is shown with its score and band,
\* whatever happens to the other signal.
C3_SignalsIndependent ==
    /\ request.made => report.shown /\ ~raised
    /\ TideSucceeded =>
         /\ report.tide.available
         /\ report.tide.score = request.tide.value
         /\ report.tide.level = SpecTideBand(request.tide.value)
         /\ report.tide.class = SpecClass(SpecTideBand(request.tide.value))
    /\ CoastalSucceeded =>
         /\ report.coastal.available
         /\ report.coastal.level = request.coastal.value
         /\ report.coastal.class = SpecClass(SpecCoastalBand(request.coastal.value))

\* The tide model returns 2.6 and the coastal model is None: the report shows
\* tide 2.6 High, no coastal signal and no overall verdict.
C3_Witness ==
    /\ report.shown
    /\ coastal_model = "None"
    /\ TideSucceeded /\ request.tide.value = 26000
    /\ report.tide.available /\ report.tide.score = 26000 /\ report.tide.level = "High"
    /\ ~report.coastal.available
    /\ ~report.overall.present

\* C4: an overall verdict that is shown is High when the tide score is at least
\* 2.5 or the label is "High", else Moderate when the score is at least 1.5 or
\* the label is "Moderate", else Low, with the advisory text of its band.
C4_OverallVerdict ==
    report.overall.present =>
        LET band == SpecOverallBand(request.tide.value, request.coastal.value)
        IN  /\ report.overall.class = SpecClass(band)
            /\ report.overall.desc = SpecMessage(band)

\* A verdict for a label that is none of "High", "Moderate", "Low".
C4_Witness ==
    /\ report.overall.present
    /\ request.coastal.value \notin {"High", "Moderate", "Low"}
    /\ request.tide.value < TideModerateThreshold
    /\ report.overall.class = "risk-low"

\* A click record with both fields numbers, and its opposite: no click, or a
\* record with lat or lng null or not there.
WellFormed(p) == p.click /\ p.lat.kind = "num" /\ p.lng.kind = "num"
Malformed(p) == ~WellFormed(p)

\* C5: after a map click at (lat, lng) the session coordinate is (lat, lng) and
\* the page is still the map page, for every pair the map supplies.
C5_ClickSetsCoordinate ==
    (event.name = "map_click" /\ WellFormed(event.click)) =>
        /\ latitude = event.click.lat.v
        /\ longitude = event.click.lng.v
        /\ page = "map"

\* C6: the session coordinate is always in range, and so is every coordinate
\* handed to the predict calls.
C6_CoordinateInRange ==
    /\ InRange(latitude, longitude)
    /\ request.made => InRange(request.lat, request.lon)

NavigationEvents == {"select_map", "select_coordinates", "back"}
PageTransitions ==
    {<<"home", "map">>, <<"home", "coordinates">>, <<"map", "home">>, <<"coordinates", "home">>}
TransitionEvent(from, to) ==
    IF to = "map" THEN "select_map"
    ELSE IF to = "coordinates" THEN "select_coordinates"
    ELSE "back"

\* C7: the page starts at home, is always home, map or coordinates, changes only
\* by select-map and select-coordinates from home and by back to home, and while
\* the session runs some page transition is always enabled.
C7_PageMachine ==
    /\ page = "home"
    /\ [](page \in Pages)
    /\ [][page' # page =>
            /\ <<page, page'>> \in PageTransitions
            /\ event'.name = TransitionEvent(page, page')]_vars
    /\ [](phase = "running" =>
            ENABLED (SelectMap \/ SelectCoordinates \/ BackFromMap \/ BackFromCoordinates))

\* Back on the map page has led home with a coordinate that was clicked there.
C7_Witness ==
    /\ event.name = "back"
    /\ page = "home"
    /\ latitude = 200000

\* C8: select-map, select-coordinates and back leave the latitude and the
\* longitude as they were, and back leads to the home page.
C8_NavigationKeepsCoordinate ==
    [][event'.name \in NavigationEvents =>
        /\ latitude' = latitude
        /\ longitude' = longitude
        /\ (event'.name = "back" => page' = "home")]_vars

\* Back has led home with a latitude that was entered on the coordinates page.
C8_Witness ==
    /\ event.name = "back"
    /\ page = "home"
    /\ latitude = MinLatitude

\* C9: analyze changes neither the page nor the coordinate, and the predictions
\* and the report of the run are for the session coordinate.
C9_AnalyzeFrame ==
    [][event'.name = "analyze" =>
        /\ page' = page
        /\ latitude' = latitude
        /\ longitude' = longitude
        /\ request'.made =>
              /\ request'.lat = latitude /\ request'.lon = longitude
              /\ report'.latitude = latitude /\ report'.longitude = longitude]_vars

\* An analysis on the map page for a point that was clicked there.
C9_Witness ==
    /\ event.name = "analyze"
    /\ page = "map"
    /\ request.made
    /\ request.lat = 200000 /\ request.lon = 300000

\* C10: a run of the map page whose click payload is malformed or missing
\* leaves the page and the coordinate as they were and does not raise.
C10_MalformedClickIgnored ==
    [][(page = "map" /\ event'.name \in {"map_click", "analyze"}
            /\ Malformed(event'.click)) =>
        /\ page' = page
        /\ latitude' = latitude
        /\ longitude' = longitude
        /\ ~raised']_vars

\* C11: a coastal label that predict returns is classified by exact match:
\* "High" is High, "Moderate" is Moderate and every other label is Low; the run
\* does not raise, and the band of the coastal card is one of the three.
C11_CoastalLabelBand ==
    CoastalSucceeded =>
        LET label == request.coastal.value
        IN  /\ ~raised
            /\ report.coastal.available
            /\ label = "High" => report.coastal.class = "risk-high"
            /\ label = "Moderate" => report.coastal.class = "risk-moderate"
            /\ label \notin {"High", "Moderate"} => report.coastal.class = "risk-low"
            /\ report.coastal.class \in {"risk-low", "risk-moderate", "risk-high"}

\* The coastal model returned "high", which is not "High", and the card is Low.
C11_Witness ==
    /\ CoastalSucceeded
    /\ request.coastal.value = "high"
    /\ report.coastal.available
    /\ report.coastal.class = "risk-low"

\* The order Low < Moderate < High of the bands.
BandRank(band) ==
    CASE band = "Low" -> 0
      [] band = "Moderate" -> 1
      [] band = "High" -> 2

\* C12: the tide band shown for a score is High from 2.5 up, Moderate from 1.5
\* up to but not including 2.5, and Low below 1.5; 2.5 is High, 2.4999 is
\* Moderate, 1.5 is Moderate and 1.4999 is Low; and no score is given a lower
\* band than a smaller score, nor a higher band than a larger one.
C12_TideBand ==
    TideSucceeded =>
        LET score == request.tide.value
            band == report.tide.level
        IN  /\ report.tide.available
            /\ score >= 25000 => band = "High"
            /\ (15000 <= score /\ score < 25000) => band = "Moderate"
            /\ score < 15000 => band = "Low"
            /\ score = 25000 => band = "High"
            /\ score = 24999 => band = "Moderate"
            /\ score = 15000 => band = "Moderate"
            /\ score = 14999 => band = "Low"
            /\ \A other \in TideScores :
                  /\ score <= other => BandRank(band) <= BandRank(tide_level(other))
                  /\ other <= score => BandRank(tide_level(other)) <= BandRank(band)

\* The tide model returned exactly 2.5 and the card shows High.
C12_Witness ==
    /\ TideSucceeded
    /\ request.tide.value = 25000
    /\ report.tide.available
    /\ report.tide.level = "High"

\* The order of the bands on the classes of the cards.
ClassRank(class) ==
    CASE class = "risk-low" -> 0
      [] class = "risk-moderate" -> 1
      [] class = "risk-high" -> 2
MaxRank(a, b) == IF a >= b THEN a ELSE b

\* C13: the overall verdict, computed from the raw tide score and the label, is
\* the higher of the band of the tide card and the band of the coastal card of
\* the same report, and so is lower than neither.
C13_OverallIsMaxOfBands ==
    report.overall.present =>
        /\ report.tide.available /\ report.coastal.available
        /\ report.tide.class = SpecClass(report.tide.level)
        /\ ClassRank(report.overall.class) =
               MaxRank(ClassRank(report.tide.class), ClassRank(report.coastal.class))
        /\ ClassRank(report.overall.class) >= BandRank(report.tide.level)
        /\ ClassRank(report.overall.class) >= ClassRank(report.coastal.class)

\* A tide score just under 2.5 with a Low label: both the tide band and the
\* verdict are Moderate.
C13_Witness ==
    /\ report.overall.present
    /\ request.tide.value = 24999
    /\ request.coastal.value = "Low"
    /\ report.tide.level = "Moderate"
    /\ report.coastal.class = "risk-low"
    /\ report.overall.class = "risk-moderate"

\* C14: once the models are loaded, each model is available exactly when its own
\* artifact exists and loads, and a session with at most one bad artifact is
\* not blocked.
C14_LoadDegradesOneSignal ==
    phase # "loading" =>
        /\ tide_model = "loaded" <=> tideArtifact = "ok"
        /\ coastal_model = "loaded" <=> coastalArtifact = "ok"
        /\ (tideArtifact = "ok" \/ coastalArtifact = "ok") => phase # "blocked"

====
